---- MODULE Spec2Model ----
(***************************************************************************)
(* Grid-search orchestration of the retail brand scraper.                  *)
(*                                                                         *)
(* The repository holds three variants of the same server:                 *)
(*   "polling" : src/server.js 1-473   background job, status by polling,  *)
(*               per-brand deduplication, results batched to storage       *)
(*   "sse_db"  : src/server.js 475-937 live event stream + storage,        *)
(*               job-wide deduplication                                    *)
(*   "sse_mem" : src/unnamed/part_000  live event stream only, no storage, *)
(*               fetchPlaces without retry, 5 km grid                      *)
(*                                                                         *)
(* Units: coordinates are integers in 1e-5 degrees, money is in            *)
(* thousandths of a currency unit (17 per call, ceiling 20000 * 1000),     *)
(* delays are in milliseconds.                                             *)
(*                                                                         *)
(* Specifications: Spec (short jobs of every variant with a faulty         *)
(* provider and the query endpoints), SpecFair (Spec with weak fairness of *)
(* the job's steps), SpecLong (an 11-operation polling job), SpecOrder (2  *)
(* brands over 2 or 3 grid points), SpecCost (call counts around the cost  *)
(* ceiling), SpecStart (the start of a job over boxes up to 0.4 x 0.4      *)
(* degrees, three centre latitudes), SpecFetch (single fetchPlaces calls   *)
(* of up to three pages), SpecPair (two jobs run interleaved).             *)
(***************************************************************************)
EXTENDS Integers, Sequences, FiniteSets, TLC

VARIABLES
    variant,            \* which server variant handles the request
    brands,             \* req.body.brands (the brand names, in input order)
    cityBounds,         \* req.body.cityBounds
    cityCenter,         \* req.body.cityCenter[0], the latitude of the city centre
    pc,                 \* position of the handler / background function
    grid,               \* const grid
    brandIndex,         \* for-loop index over brands (0-based as in the code)
    gridIndex,          \* for-loop index over grid (0-based as in the code)
    currentOperation,   \* let currentOperation
    totalApiCalls,      \* let totalApiCalls
    seenPlaceIds,       \* seenPlaceIds / brandSeenPlaceIds
    brandResults,       \* brandResults (allResults in sse_mem)
    err,                \* message of the error in flight, <<>> when none
    places,             \* fetchPlaces: const places
    nextPageToken,      \* fetchPlaces: let nextPageToken (0 is null)
    apiCalls,           \* fetchPlaces: let apiCalls
    attempt,            \* fetchPlaces: let attempt
    httpAttempts,       \* history: axios.get calls issued by the current fetchPlaces call
    waits,              \* history: backoff delays slept for the current page
    pageLog,            \* history: provider status of every attempt of the current page
    outcome,            \* history: how the last fetchPlaces call ended
    requests,           \* history: page token sent and answer got, for every logged HTTP attempt of the current call
    percentages,        \* history: the percentage field of every progress message sent, in order
    logged,             \* history: whether the HTTP attempts are logged in requests (page runs never are)
    session,            \* the scraping_sessions row of this job
    results,            \* the scraping_results rows of this job, in insert order
    stream,             \* the messages written by sendProgress, in order
    ended,              \* res.end() was called
    connected,          \* the live listener is still attached
    heartbeat,          \* the heartbeat interval is armed
    fetchLog,           \* history: <<brandIndex, gridIndex>> of every fetchPlaces call
    costObserved,       \* history: the orchestrator saw currentCost > ceiling
    exhausted,          \* history: <<kind, operation number>> of every fetch that ran out of retries
    discovery,          \* history: every place handed to the deduplication loop, in order
    startTotal,         \* history: the total field of the start message, -1 before it is sent
    insertFailed,       \* history: brandIndex of every batch insert that returned an error
    reply,              \* the answer to the last status or results query for the job's id
    other,              \* the locals of a second job of the same server, run at the same time
    faultsLeft,         \* environment: how many more attempts get a rate-limit or transport failure
    tokensLeft          \* environment: how many more continuation tokens the provider issues

fetchVars == <<places, nextPageToken, apiCalls, attempt, httpAttempts, waits, pageLog, outcome, requests>>
loopVars  == <<brandIndex, gridIndex, currentOperation, totalApiCalls, seenPlaceIds, brandResults>>
inputVars == <<variant, brands, cityBounds, cityCenter>>
dbVars    == <<session, results>>
sseVars   == <<stream, ended, connected, heartbeat>>
histVars  == <<fetchLog, costObserved, exhausted, discovery, startTotal, insertFailed>>
logVars   == <<logged>>
envVars   == <<faultsLeft, tokensLeft>>
vars == <<inputVars, pc, grid, loopVars, err, fetchVars, dbVars, sseVars, histVars, logVars, envVars, reply, other,
         percentages>>

----------------------------------------------------------------------------
(* Bounds of the model *)

MaxOps == 2             \* most (brand, grid point) operations of a job
MaxTokens == 1          \* continuation tokens the provider issues in one job
MaxFaults == 3          \* rate-limited or failed attempts the environment produces in one job
BurstPages == 1176470   \* length of a long run of empty pages answered in one step
LatSpan == 10000        \* extent of the widest bounding box, in 1e-5 degrees
ProbeCalls == 1000      \* a call count far below the cost ceiling
LongSpan == 91000       \* extent of the bounding box of a long job, in 1e-5 degrees

----------------------------------------------------------------------------
(* Program constants *)

Retries == 3                    \* fetchPlaces(..., retries = 3)
UnitCostMilli == 17             \* totalApiCalls * (17 / 1000)
CostCeiling == 20000            \* if (currentCost > 20000)
KmPerDegLatMilli == 110574      \* 1 / 110.574
KmPerDegLngMilli == 111320      \* 1 / (111.320 * cos)

Variants == {"polling", "sse_db", "sse_mem"}
Persists(v) == v \in {"polling", "sse_db"}
Streams(v) == v \in {"sse_db", "sse_mem"}
NoId == ""                      \* a place without place_id

----------------------------------------------------------------------------
(* generateGrid *)

\* Math.cos(centerLat * Math.PI / 180) in thousandths, for the centres used
CosMilli(centerLat) ==
    CASE centerLat = 0 -> 1000
      [] centerLat = 2860000 -> 878
      [] centerLat = 6000000 -> 500

\* spacingKm * (1 / 110.574), in 1e-5 degrees
latStepOf(spacingKm) == (spacingKm * 100000 * 1000) \div KmPerDegLatMilli
\* spacingKm * (1 / (111.320 * cos)), in 1e-5 degrees
lngStepOf(spacingKm, centerLat) ==
    (spacingKm * 100000 * 1000) \div ((KmPerDegLngMilli * CosMilli(centerLat)) \div 1000)

\* slip: the inner loop pushes the point it stops at
RECURSIVE gridRow_Overshoot(_, _, _, _)
gridRow_Overshoot(lat, lng, max_lng, lngStep) ==
    IF lng <= max_lng
    THEN <<[lat |-> lat, lng |-> lng]>> \o gridRow_Overshoot(lat, lng + lngStep, max_lng, lngStep)
    ELSE <<[lat |-> lat, lng |-> lng]>>

\* while (lng <= bounds.max_lng) { grid.push({lat, lng}); lng += lngStep }
RECURSIVE gridRow(_, _, _, _)
gridRow(lat, lng, max_lng, lngStep) ==
    IF lng <= max_lng
    THEN <<[lat |-> lat, lng |-> lng]>> \o gridRow(lat, lng + lngStep, max_lng, lngStep)
    ELSE <<>>

\* slip: the outer loop tests lat < bounds.max_lat
RECURSIVE gridRows_Strict(_, _, _, _)
gridRows_Strict(lat, bounds, latStep, lngStep) ==
    IF lat < bounds.max_lat
    THEN gridRow(lat, bounds.min_lng, bounds.max_lng, lngStep)
            \o gridRows_Strict(lat + latStep, bounds, latStep, lngStep)
    ELSE <<>>

\* while (lat <= bounds.max_lat) { ...; lat += latStep }
RECURSIVE gridRows(_, _, _, _)
gridRows(lat, bounds, latStep, lngStep) ==
    IF lat <= bounds.max_lat
    THEN gridRow(lat, bounds.min_lng, bounds.max_lng, lngStep)
            \o gridRows(lat + latStep, bounds, latStep, lngStep)
    ELSE <<>>

generateGrid(bounds, spacingKm, centerLat) ==
    gridRows(bounds.min_lat, bounds, latStepOf(spacingKm), lngStepOf(spacingKm, centerLat))

\* the grid spacing each variant passes to generateGrid (server.js 165, 682; part_000 161)
SpacingKm(v) == IF v = "sse_mem" THEN 5 ELSE 10

\* req.body.cityCenter[0] of the jobs: a city at 28.6 degrees north
CityCenterLat == 2860000

\* the centres generateGrid is applied to: the equator, the city, 60 degrees north
CenterLats == {0, CityCenterLat, 6000000}

----------------------------------------------------------------------------
(* Error messages, as sequences of words; includes() is containment of a   *)
(* contiguous run of words                                                 *)

QuotaMsg(v) ==
    CASE v = "polling" -> <<"API", "quota", "exceeded">>
      [] v = "sse_db"  -> <<"API", "quota", "exceeded", "after", "retries">>
      [] v = "sse_mem" -> <<"API", "quota", "exceeded">>
CostMsg(v) ==
    IF v = "polling" THEN <<"Cost", "limit", "exceeded">>
    ELSE <<"Cost", "limit", "of", "20,000", "exceeded">>
TransportMsgs == {<<"timeout", "of", "10000ms", "exceeded">>, <<"Network", "Error">>}
SessionMsg == <<"Failed", "to", "create", "scraping", "session">>
NoError == <<>>

Includes(msg, pat) ==
    \E i \in 0..(Len(msg) - Len(pat)) : \A j \in 1..Len(pat) : msg[i + j] = pat[j]

----------------------------------------------------------------------------
(* The places-search provider: what one HTTP attempt can come back with    *)

\* response.data.results of an OK answer: the places of a page are fixed by
\* the page, the first page holds a place without place_id and place "a",
\* every continuation page holds "a" again and "b"; ZERO_RESULTS is the
\* answer without places
PageResults(token) == IF token = 0 THEN <<NoId, "a">> ELSE <<"a", "b">>
ResultChoices == {PageResults(nextPageToken)}

\* a continuation token is the number of the page it leads to; 0 is none
TokenChoices == {0} \cup (IF tokensLeft > 0 THEN {nextPageToken + 1} ELSE {})

Responses ==
    {[status |-> "OK", results |-> rs, token |-> t, msg |-> NoError] :
        rs \in ResultChoices, t \in TokenChoices}
    \cup {[status |-> st, results |-> <<>>, token |-> 0, msg |-> NoError] :
        st \in {"ZERO_RESULTS", "INVALID_REQUEST"}}
    \cup (IF faultsLeft > 0
          THEN {[status |-> "OVER_QUERY_LIMIT", results |-> <<>>, token |-> 0, msg |-> NoError]}
               \cup {[status |-> "ERR", results |-> <<>>, token |-> 0, msg |-> m] :
                        m \in TransportMsgs}
          ELSE {})

IsFault(r) == r.status \in {"OVER_QUERY_LIMIT", "ERR"}

\* what is left of the environment's budgets after the answer r
FaultsAfter(r) == IF IsFault(r) THEN faultsLeft - 1 ELSE faultsLeft
TokensAfter(r) == IF r.token # 0 THEN tokensLeft - 1 ELSE tokensLeft

----------------------------------------------------------------------------
(* fetchPlaces with retry (server.js 58-120, identical at 535-609)         *)

\* one HTTP attempt: params.pagetoken (0 when none is sent) and the answer
Exchange(pagetoken, r) ==
    [pagetoken |-> pagetoken, status |-> r.status, results |-> r.results, token |-> r.token]

\* slip: the delay grows by 2 s per attempt
Backoff_Linear(n) == n * 2 * 1000

\* Math.pow(2, n) * 1000
Backoff(n) == (2 ^ n) * 1000

\* slip: a status that is neither ok, no-results nor rate-limited is retried
\* like a rate-limited one, and the continuation token is kept
TryBlock_OtherRetried(r) ==
    CASE r.status = "ERR" ->
            [thrown |-> TRUE, msg |-> r.msg, places |-> places, token |-> nextPageToken,
             apiCalls |-> apiCalls, attempt |-> attempt, success |-> FALSE, waits |-> waits]
      [] r.status \in {"OK", "ZERO_RESULTS"} ->
            [thrown |-> FALSE, msg |-> NoError, places |-> places \o r.results, token |-> r.token,
             apiCalls |-> apiCalls + 1, attempt |-> attempt, success |-> TRUE, waits |-> waits]
      [] OTHER ->
            [thrown |-> (attempt + 1 >= Retries), msg |-> QuotaMsg(variant), places |-> places,
             token |-> nextPageToken, apiCalls |-> apiCalls + 1, attempt |-> attempt + 1,
             success |-> FALSE, waits |-> Append(waits, Backoff(attempt + 1))]

\* slip: the results of a page replace the places instead of being pushed
TryBlock_Overwrites(r) ==
    CASE r.status = "ERR" ->
            [thrown |-> TRUE, msg |-> r.msg, places |-> places, token |-> nextPageToken,
             apiCalls |-> apiCalls, attempt |-> attempt, success |-> FALSE, waits |-> waits]
      [] r.status \in {"OK", "ZERO_RESULTS"} ->
            [thrown |-> FALSE, msg |-> NoError, places |-> r.results, token |-> r.token,
             apiCalls |-> apiCalls + 1, attempt |-> attempt, success |-> TRUE, waits |-> waits]
      [] r.status = "OVER_QUERY_LIMIT" ->
            [thrown |-> (attempt + 1 >= Retries), msg |-> QuotaMsg(variant), places |-> places,
             token |-> nextPageToken, apiCalls |-> apiCalls + 1, attempt |-> attempt + 1,
             success |-> FALSE, waits |-> Append(waits, Backoff(attempt + 1))]
      [] OTHER ->
            [thrown |-> FALSE, msg |-> NoError, places |-> places, token |-> 0,
             apiCalls |-> apiCalls + 1, attempt |-> attempt, success |-> TRUE, waits |-> waits]

\* the try block for one attempt answered by r: the locals after it and
\* whether it left by an exception
TryBlock(r) ==
    CASE r.status = "ERR" ->
            [thrown |-> TRUE, msg |-> r.msg, places |-> places, token |-> nextPageToken,
             apiCalls |-> apiCalls, attempt |-> attempt, success |-> FALSE, waits |-> waits]
      [] r.status \in {"OK", "ZERO_RESULTS"} ->
            [thrown |-> FALSE, msg |-> NoError, places |-> places \o r.results, token |-> r.token,
             apiCalls |-> apiCalls + 1, attempt |-> attempt, success |-> TRUE, waits |-> waits]
      [] r.status = "OVER_QUERY_LIMIT" ->
            [thrown |-> (attempt + 1 >= Retries), msg |-> QuotaMsg(variant), places |-> places,
             token |-> nextPageToken, apiCalls |-> apiCalls + 1, attempt |-> attempt + 1,
             success |-> FALSE, waits |-> Append(waits, Backoff(attempt + 1))]
      [] OTHER ->
            [thrown |-> FALSE, msg |-> NoError, places |-> places, token |-> 0,
             apiCalls |-> apiCalls + 1, attempt |-> attempt, success |-> TRUE, waits |-> waits]

\* slip: the catch block does not count the failed attempt
CatchBlock_NoCount(t) ==
    [t EXCEPT !.returned = FALSE, !.waits = Append(t.waits, Backoff(t.attempt + 1))]

\* the catch block, entered with the locals t the try block left
CatchBlock(t) ==
    IF t.attempt + 1 >= Retries
    THEN [t EXCEPT !.attempt = t.attempt + 1, !.returned = TRUE]
    ELSE [t EXCEPT !.attempt = t.attempt + 1, !.returned = FALSE,
                   !.waits = Append(t.waits, Backoff(t.attempt + 1))]

\* one pass of the while body: try, then catch when the try threw
AttemptOnce(r) ==
    LET t == TryBlock(r) @@ [returned |-> FALSE]
    IN  IF t.thrown THEN CatchBlock(t) ELSE t

\* the kind of retry exhaustion that ended the call, if any
ExhaustionOf(r, a) ==
    IF ~a.returned THEN {}
    ELSE IF r.status = "OVER_QUERY_LIMIT" THEN {<<"rate", currentOperation>>}
    ELSE {<<"transport", currentOperation>>}

HttpAttempt(r) ==
    /\ pc = "fetch"
    /\ variant \in {"polling", "sse_db"}
    /\ LET a == AttemptOnce(r)
           exitWhile == a.success \/ ~(a.attempt < Retries)
       IN  /\ places' = a.places
           /\ apiCalls' = a.apiCalls
           /\ nextPageToken' = a.token
           /\ httpAttempts' = httpAttempts + 1
           /\ exhausted' = exhausted \cup ExhaustionOf(r, a)
           /\ IF a.returned \/ (exitWhile /\ a.token = 0)
              THEN /\ pc' = "fetched"
                   /\ outcome' = "return"
                   /\ attempt' = a.attempt
                   /\ waits' = a.waits
                   /\ pageLog' = Append(pageLog, r.status)
              ELSE IF exitWhile
              THEN /\ attempt' = 0
                   /\ waits' = <<>>
                   /\ pageLog' = <<>>
                   /\ UNCHANGED <<pc, outcome>>
              ELSE /\ attempt' = a.attempt
                   /\ waits' = a.waits
                   /\ pageLog' = Append(pageLog, r.status)
                   /\ UNCHANGED <<pc, outcome>>
    /\ requests' = IF logged THEN Append(requests, Exchange(nextPageToken, r)) ELSE requests
    /\ faultsLeft' = FaultsAfter(r)
    /\ tokensLeft' = TokensAfter(r)
    /\ UNCHANGED <<inputVars, logVars, percentages, reply, other, grid, loopVars, err, dbVars, sseVars, fetchLog, costObserved, discovery, startTotal,
                   insertFailed>>

----------------------------------------------------------------------------
(* fetchPlaces without retry (part_000 50-94): every exception is rethrown *)

HttpAttemptNoRetry(r) ==
    /\ pc = "fetch"
    /\ variant = "sse_mem"
    /\ httpAttempts' = httpAttempts + 1
    /\ pageLog' = IF r.status \in {"OK", "ZERO_RESULTS"} /\ r.token # 0 THEN <<>> ELSE <<r.status>>
    /\ UNCHANGED <<attempt, waits>>
    /\ CASE r.status = "ERR" ->
                /\ pc' = "catch"
                /\ outcome' = "throw"
                /\ err' = r.msg
                /\ exhausted' = exhausted \cup {<<"transport", currentOperation>>}
                /\ UNCHANGED <<places, nextPageToken, apiCalls>>
         [] r.status \in {"OK", "ZERO_RESULTS"} ->
                /\ places' = places \o r.results
                /\ nextPageToken' = r.token
                /\ apiCalls' = apiCalls + 1
                /\ IF r.token = 0
                   THEN pc' = "fetched" /\ outcome' = "return"
                   ELSE UNCHANGED <<pc, outcome>>
                /\ UNCHANGED <<err, exhausted>>
         [] r.status = "OVER_QUERY_LIMIT" ->
                /\ apiCalls' = apiCalls + 1
                /\ pc' = "catch"
                /\ outcome' = "throw"
                /\ err' = QuotaMsg(variant)
                /\ exhausted' = exhausted \cup {<<"rate", currentOperation>>}
                /\ UNCHANGED <<places, nextPageToken>>
         [] OTHER ->
                /\ apiCalls' = apiCalls + 1
                /\ nextPageToken' = 0
                /\ pc' = "fetched"
                /\ outcome' = "return"
                /\ UNCHANGED <<places, err, exhausted>>
    /\ requests' = IF logged THEN Append(requests, Exchange(nextPageToken, r)) ELSE requests
    /\ faultsLeft' = FaultsAfter(r)
    /\ tokensLeft' = TokensAfter(r)
    /\ UNCHANGED <<inputVars, logVars, percentages, reply, other, grid, loopVars, dbVars, sseVars, fetchLog, costObserved, discovery, startTotal,
                   insertFailed>>

\* BurstPages consecutive passes of the do-loop of fetchPlaces (either
\* version) in which the provider answers the first attempt with OK, no
\* results and a continuation token
PageRun ==
    /\ pc = "fetch"
    /\ totalApiCalls + apiCalls < BurstPages
    /\ apiCalls' = apiCalls + BurstPages
    /\ httpAttempts' = httpAttempts + BurstPages
    /\ nextPageToken' = nextPageToken + 1
    /\ attempt' = 0
    /\ waits' = <<>>
    /\ pageLog' = <<>>
    /\ UNCHANGED <<inputVars, logVars, percentages, reply, other, pc, grid, loopVars, err, places, outcome, requests, dbVars, sseVars, histVars, envVars>>

----------------------------------------------------------------------------
(* Storage rows and stream messages                                        *)

NoSession ==
    [exists |-> FALSE, status |-> "none", total_operations |-> 0, completed_operations |-> 0,
     total_cost |-> 0, total_results |-> 0, error_message |-> NoError]

NewSession(status, total) ==
    [exists |-> TRUE, status |-> status, total_operations |-> total, completed_operations |-> 0,
     total_cost |-> 0, total_results |-> 0, error_message |-> NoError]

\* supabase.from('scraping_sessions').update(...).eq('session_id', sessionId):
\* changes the row when it exists, does nothing otherwise
Update(row, changes) ==
    IF row.exists
    THEN [f \in DOMAIN row |-> IF f \in DOMAIN changes THEN changes[f] ELSE row[f]]
    ELSE row

\* totalApiCalls * (17 / 1000), in thousandths
CostOf(calls) == calls * UnitCostMilli

\* slip: the ceiling is tested one call early
CostExceeded_Early(calls) == CostOf(calls + 1) > CostCeiling * 1000

\* currentCost > 20000
CostExceeded(calls) == CostOf(calls) > CostCeiling * 1000

\* sendProgress({type: ...})
Send(s, v, type) == IF Streams(v) THEN Append(s, type) ELSE s

\* Math.round((currentOperation / totalOperations) * 100): 0 / 0 is NaN and
\* n / 0 is Infinity, which Math.round hands on (JSON.stringify writes null
\* for both)
RoundedPercent(cur, total) ==
    IF total # 0 THEN [kind |-> "number", value |-> (200 * cur + total) \div (2 * total)]
    ELSE IF cur = 0 THEN [kind |-> "NaN"]
    ELSE [kind |-> "Infinity"]

\* the percentage field of a progress message of the streaming variants
SendPercent(q, v, cur, total) == IF Streams(v) THEN Append(q, RoundedPercent(cur, total)) ELSE q

----------------------------------------------------------------------------
(* Start of a job                                                          *)

\* slip: the counts are added
TotalOperations_Sum(bs, g) == Len(bs) + Len(g)

\* slip: the brand count is left out of the product
TotalOperations_GridOnly(bs, g) == Len(g)

\* const totalOperations = brands.length * grid.length
TotalOperations(bs, g) == Len(bs) * Len(g)

\* POST /api/scrape of the polling variant (server.js 331-374): create the
\* session row, start the background function without awaiting it
ScrapePolling ==
    /\ pc = "request"
    /\ variant = "polling"
    /\ \E sessionError \in BOOLEAN :
          IF sessionError
          THEN pc' = "done" /\ UNCHANGED session
          ELSE pc' = "background" /\ session' = NewSession("starting", 0)
    /\ UNCHANGED <<inputVars, logVars, percentages, reply, other, grid, loopVars, err, fetchVars, results, sseVars, histVars, envVars>>

\* runScrapingInBackground up to the brand loop (server.js 161-181)
StartBackground ==
    /\ pc = "background"
    /\ grid' = generateGrid(cityBounds, SpacingKm(variant), cityCenter)
    /\ session' = Update(session, [status |-> "in_progress",
                                   total_operations |-> TotalOperations(brands, grid')])
    /\ pc' = "brand_loop"
    /\ UNCHANGED <<inputVars, logVars, percentages, reply, other, loopVars, err, fetchVars, results, sseVars, histVars, envVars>>

\* the outer catch of the streaming handler with storage (server.js 871-887)
OuterCatchSseDb(msg) ==
    /\ session' = Update(session, [status |-> "failed"])
    /\ stream' = Send(stream, variant, "error")
    /\ heartbeat' = FALSE
    /\ ended' = TRUE
    /\ pc' = "done"
    /\ UNCHANGED startTotal

\* slip: the error of the session insert is not looked at
ScrapeSseDb_IgnoresError ==
    /\ pc = "request"
    /\ variant = "sse_db"
    /\ grid' = generateGrid(cityBounds, SpacingKm(variant), cityCenter)
    /\ \E sessionError \in BOOLEAN :
          /\ session' = IF sessionError THEN session
                        ELSE NewSession("in_progress", TotalOperations(brands, grid'))
          /\ stream' = Send(stream, variant, "start")
          /\ startTotal' = TotalOperations(brands, grid')
          /\ heartbeat' = connected
          /\ pc' = "brand_loop"
          /\ UNCHANGED ended
    /\ UNCHANGED <<inputVars, logVars, percentages, reply, other, loopVars, err, fetchVars, results, connected, fetchLog, costObserved, exhausted, discovery, insertFailed, envVars>>

\* POST /api/scrape of the streaming variant with storage up to the brand
\* loop (server.js 650-711)
ScrapeSseDb ==
    /\ pc = "request"
    /\ variant = "sse_db"
    /\ grid' = generateGrid(cityBounds, SpacingKm(variant), cityCenter)
    /\ \E sessionError \in BOOLEAN :
          IF sessionError
          THEN OuterCatchSseDb(SessionMsg)
          ELSE /\ session' = NewSession("in_progress", TotalOperations(brands, grid'))
               /\ stream' = Send(stream, variant, "start")
               /\ startTotal' = TotalOperations(brands, grid')
               /\ heartbeat' = connected
               /\ pc' = "brand_loop"
               /\ UNCHANGED ended
    /\ UNCHANGED <<inputVars, logVars, percentages, reply, other, loopVars, err, fetchVars, results, connected, fetchLog, costObserved, exhausted, discovery, insertFailed, envVars>>

\* POST /api/scrape of the streaming variant without storage up to the
\* brand loop (part_000 148-171)
ScrapeSseMem ==
    /\ pc = "request"
    /\ variant = "sse_mem"
    /\ grid' = generateGrid(cityBounds, SpacingKm(variant), cityCenter)
    /\ stream' = Send(stream, variant, "start")
    /\ startTotal' = TotalOperations(brands, grid')
    /\ pc' = "brand_loop"
    /\ UNCHANGED <<inputVars, logVars, percentages, reply, other, loopVars, err, fetchVars, dbVars, ended, connected, heartbeat,
                   fetchLog, costObserved, exhausted, discovery, insertFailed, envVars>>

----------------------------------------------------------------------------
(* The loops over brands and grid points                                   *)

\* slip: every variant starts each brand with an empty set of seen ids
SeenAtBrand_AlwaysFresh(v, seen) == {}

\* slip: no variant starts a brand with an empty set of seen ids
SeenAtBrand_NeverFresh(v, seen) == seen

\* the set of seen ids a brand starts with: const brandSeenPlaceIds = new
\* Set() inside the brand loop (server.js 188), const seenPlaceIds = new
\* Set() before it (server.js 686, part_000 166)
SeenAtBrand(v, seen) == IF v = "polling" THEN {} ELSE seen

\* head of for (brandIndex ...) and the statements before the inner loop
NextBrand ==
    /\ pc = "brand_loop"
    /\ IF brandIndex < Len(brands)
       THEN /\ stream' = Send(stream, variant, "progress")
            /\ percentages' = SendPercent(percentages, variant, currentOperation,
                                          TotalOperations(brands, grid))
            /\ brandResults' = IF variant = "sse_mem" THEN brandResults ELSE <<>>
            /\ seenPlaceIds' = SeenAtBrand(variant, seenPlaceIds)
            /\ gridIndex' = 0
            /\ pc' = "grid_loop"
       ELSE /\ pc' = "finish"
            /\ UNCHANGED <<stream, percentages, brandResults, seenPlaceIds, gridIndex>>
    /\ UNCHANGED <<inputVars, logVars, reply, other, grid, brandIndex, currentOperation, totalApiCalls, err, fetchVars,
                   dbVars, ended, connected, heartbeat, histVars, envVars>>

\* slip: the call of fetchPlaces is not awaited, the next one starts while
\* it is running
NextPoint_NoAwait ==
    /\ pc \in {"grid_loop", "fetch"}
    /\ gridIndex < Len(grid)
    /\ currentOperation' = currentOperation + 1
    /\ stream' = Send(stream, variant, "progress")
    /\ percentages' = SendPercent(percentages, variant, currentOperation',
                                  TotalOperations(brands, grid))
    /\ places' = <<>>
    /\ nextPageToken' = 0
    /\ apiCalls' = 0
    /\ attempt' = 0
    /\ httpAttempts' = 0
    /\ waits' = <<>>
    /\ pageLog' = <<>>
    /\ outcome' = "none"
    /\ requests' = <<>>
    /\ fetchLog' = Append(fetchLog, <<brandIndex, gridIndex>>)
    /\ pc' = "fetch"
    /\ UNCHANGED <<inputVars, logVars, reply, other, grid, brandIndex, gridIndex, totalApiCalls, seenPlaceIds,
                   brandResults, err, dbVars, ended, connected, heartbeat, costObserved, exhausted,
                   discovery, startTotal, insertFailed, envVars>>

\* head of for (gridIndex ...) up to the call of fetchPlaces
NextPoint ==
    /\ pc = "grid_loop"
    /\ gridIndex < Len(grid)
    /\ currentOperation' = currentOperation + 1
    /\ stream' = Send(stream, variant, "progress")
    /\ percentages' = SendPercent(percentages, variant, currentOperation',
                                  TotalOperations(brands, grid))
    /\ places' = <<>>
    /\ nextPageToken' = 0
    /\ apiCalls' = 0
    /\ attempt' = 0
    /\ httpAttempts' = 0
    /\ waits' = <<>>
    /\ pageLog' = <<>>
    /\ outcome' = "none"
    /\ requests' = <<>>
    /\ fetchLog' = Append(fetchLog, <<brandIndex, gridIndex>>)
    /\ pc' = "fetch"
    /\ UNCHANGED <<inputVars, logVars, reply, other, grid, brandIndex, gridIndex, totalApiCalls, seenPlaceIds,
                   brandResults, err, dbVars, ended, connected, heartbeat, costObserved, exhausted,
                   discovery, startTotal, insertFailed, envVars>>

\* the inner loop is over: insert the batch (storage variants) or go on
\* with the next brand
EndOfGrid ==
    /\ pc = "grid_loop"
    /\ ~(gridIndex < Len(grid))
    /\ IF Persists(variant)
       THEN pc' = "insert" /\ UNCHANGED brandIndex
       ELSE pc' = "brand_loop" /\ brandIndex' = brandIndex + 1
    /\ UNCHANGED <<inputVars, logVars, percentages, reply, other, grid, gridIndex, currentOperation, totalApiCalls, seenPlaceIds,
                   brandResults, err, fetchVars, dbVars, sseVars, histVars, envVars>>

\* slip: a place without place_id is not skipped
Skips_OnlySeen(placeId, seen) == placeId \in seen

\* if (!placeId || seenPlaceIds.has(placeId)) continue
Skips(placeId, seen) == placeId = NoId \/ placeId \in seen

\* slip: the id of an accepted place is not added to the set of seen ids
RECURSIVE Collect_NoMark(_, _, _, _)
Collect_NoMark(ps, seen, out, brand) ==
    IF ps = <<>> THEN [seen |-> seen, out |-> out]
    ELSE LET placeId == Head(ps)
         IN  IF Skips(placeId, seen)
             THEN Collect_NoMark(Tail(ps), seen, out, brand)
             ELSE Collect_NoMark(Tail(ps), seen,
                                 Append(out, [search_brand |-> brand, place_id |-> placeId]), brand)

\* for (const place of places) { ... } : deduplicate and build the records
RECURSIVE Collect(_, _, _, _)
Collect(ps, seen, out, brand) ==
    IF ps = <<>> THEN [seen |-> seen, out |-> out]
    ELSE LET placeId == Head(ps)
         IN  IF Skips(placeId, seen)
             THEN Collect(Tail(ps), seen, out, brand)
             ELSE Collect(Tail(ps), seen \cup {placeId},
                          Append(out, [search_brand |-> brand, place_id |-> placeId]), brand)

\* places.filter(place => ...) with the set seen (part_000 99-106)
RECURSIVE filterSeen(_, _)
filterSeen(ps, seen) ==
    IF ps = <<>> THEN <<>>
    ELSE LET placeId == Head(ps)
         IN  IF placeId # NoId /\ placeId \notin seen
             THEN <<placeId>> \o filterSeen(Tail(ps), seen \cup {placeId})
             ELSE filterSeen(Tail(ps), seen)

\* function deduplicatePlaces(places) (part_000 97-107); a place is
\* represented by its place_id
deduplicatePlaces(ps) == filterSeen(ps, {})

\* whether the loop body pushes a record for the i-th place of ps
Pushes(ps, seen, i) ==
    Len(Collect(SubSeq(ps, 1, i), seen, <<>>, 0).out)
        > Len(Collect(SubSeq(ps, 1, i - 1), seen, <<>>, 0).out)

\* the places the loop went through for one operation, each with the brand
\* searched for, the operation number and whether a record was pushed
Offered(ps, seen, brand, op) ==
    [i \in 1..Len(ps) |->
        [search_brand |-> brand, op |-> op, place_id |-> ps[i], pushed |-> Pushes(ps, seen, i)]]

\* slip: the planned total is written as the progress
ProgressUpdate_Planned(row, v, op, calls) ==
    IF v = "polling" /\ op % 10 = 0
    THEN Update(row, [completed_operations |-> row.total_operations, total_cost |-> CostOf(calls)])
    ELSE row

\* "Update progress every 10 operations" (server.js 257-269)
ProgressUpdate(row, v, op, calls) ==
    IF v = "polling" /\ op % 10 = 0
    THEN Update(row, [completed_operations |-> op, total_cost |-> CostOf(calls)])
    ELSE row

\* the fetched sequence of 'result' messages, one per new record (part_000 257-260)
RECURSIVE SendResults(_, _, _)
SendResults(s, v, n) ==
    IF n = 0 \/ v # "sse_mem" THEN s ELSE SendResults(Append(s, "result"), v, n - 1)

\* the try block after fetchPlaces returned
AfterFetch ==
    /\ pc = "fetched"
    /\ totalApiCalls' = totalApiCalls + apiCalls
    /\ IF CostExceeded(totalApiCalls')
       THEN /\ err' = CostMsg(variant)
            /\ costObserved' = TRUE
            /\ pc' = "catch"
            /\ stream' = Send(stream, variant, "cost-update")
            /\ UNCHANGED <<gridIndex, seenPlaceIds, brandResults, session, discovery>>
       ELSE LET c == Collect(places, seenPlaceIds, brandResults, brands[brandIndex + 1])
            IN  /\ seenPlaceIds' = c.seen
                /\ brandResults' = c.out
                /\ discovery' = discovery \o Offered(places, seenPlaceIds, brands[brandIndex + 1],
                                                     currentOperation)
                /\ stream' = SendResults(Send(stream, variant, "cost-update"), variant,
                                         Len(c.out) - Len(brandResults))
                /\ session' = ProgressUpdate(session, variant, currentOperation, totalApiCalls')
                /\ gridIndex' = gridIndex + 1
                /\ pc' = "grid_loop"
                /\ UNCHANGED <<err, costObserved>>
    /\ places' = <<>>
    /\ nextPageToken' = 0
    /\ apiCalls' = 0
    /\ attempt' = 0
    /\ httpAttempts' = 0
    /\ waits' = <<>>
    /\ pageLog' = <<>>
    /\ outcome' = "none"
    /\ requests' = <<>>
    /\ UNCHANGED <<inputVars, logVars, percentages, reply, other, grid, brandIndex, currentOperation, results,
                   ended, connected, heartbeat, fetchLog, exhausted, startTotal,
                   insertFailed, envVars>>

\* slip: the cost-limit message is not recognised as fatal
IsFatal_OnlyQuota(v, msg) == Includes(msg, <<"quota">>)

\* slip: every error caught at a grid point is treated as fatal
IsFatal_Any(v, msg) == TRUE

\* the test of the inner catch: which errors stop the job
IsFatal(v, msg) ==
    IF v = "polling"
    THEN Includes(msg, <<"Cost", "limit">>)
    ELSE Includes(msg, <<"quota">>) \/ Includes(msg, <<"Cost", "limit">>)

\* slip: the fatal branch of the inner catch lacks its return, the loop goes on
Catch_NoReturn ==
    /\ pc = "catch"
    /\ IF IsFatal(variant, err)
       THEN /\ session' = IF variant = "polling"
                          THEN Update(session, [status |-> "failed", error_message |-> err])
                          ELSE session
            /\ stream' = Send(stream, variant, "error")
            /\ ended' = Streams(variant)
            /\ heartbeat' = FALSE
            /\ pc' = "grid_loop"
            /\ gridIndex' = gridIndex + 1
       ELSE /\ session' = ProgressUpdate(session, variant, currentOperation, totalApiCalls)
            /\ gridIndex' = gridIndex + 1
            /\ pc' = "grid_loop"
            /\ UNCHANGED <<stream, ended, heartbeat>>
    /\ err' = NoError
    /\ places' = <<>>
    /\ nextPageToken' = 0
    /\ apiCalls' = 0
    /\ attempt' = 0
    /\ httpAttempts' = 0
    /\ waits' = <<>>
    /\ pageLog' = <<>>
    /\ outcome' = "none"
    /\ requests' = <<>>
    /\ UNCHANGED <<inputVars, logVars, percentages, reply, other, grid, brandIndex, currentOperation, totalApiCalls, seenPlaceIds,
                   brandResults, results, connected, histVars, envVars>>

\* slip: the fatal branch of the inner catch stores the batch of the brand in
\* progress before it returns
Catch_Flushes ==
    /\ pc = "catch"
    /\ IF IsFatal(variant, err)
       THEN /\ session' = IF variant = "polling"
                          THEN Update(session, [status |-> "failed", error_message |-> err])
                          ELSE session
            /\ stream' = Send(stream, variant, "error")
            /\ ended' = Streams(variant)
            /\ heartbeat' = FALSE
            /\ pc' = "done"
            /\ results' = results \o brandResults
            /\ UNCHANGED gridIndex
       ELSE /\ session' = ProgressUpdate(session, variant, currentOperation, totalApiCalls)
            /\ gridIndex' = gridIndex + 1
            /\ pc' = "grid_loop"
            /\ UNCHANGED <<stream, ended, heartbeat, results>>
    /\ err' = NoError
    /\ places' = <<>>
    /\ nextPageToken' = 0
    /\ apiCalls' = 0
    /\ attempt' = 0
    /\ httpAttempts' = 0
    /\ waits' = <<>>
    /\ pageLog' = <<>>
    /\ outcome' = "none"
    /\ requests' = <<>>
    /\ UNCHANGED <<inputVars, logVars, percentages, reply, other, grid, brandIndex, currentOperation, totalApiCalls, seenPlaceIds,
                   brandResults, connected, histVars, envVars>>

\* the inner catch (server.js 241-255, 800-812; part_000 264-274)
Catch ==
    /\ pc = "catch"
    /\ IF IsFatal(variant, err)
       THEN /\ session' = IF variant = "polling"
                          THEN Update(session, [status |-> "failed", error_message |-> err])
                          ELSE session
            /\ stream' = Send(stream, variant, "error")
            /\ ended' = Streams(variant)
            /\ heartbeat' = FALSE
            /\ pc' = "done"
            /\ UNCHANGED gridIndex
       ELSE /\ session' = ProgressUpdate(session, variant, currentOperation, totalApiCalls)
            /\ gridIndex' = gridIndex + 1
            /\ pc' = "grid_loop"
            /\ UNCHANGED <<stream, ended, heartbeat>>
    /\ err' = NoError
    /\ places' = <<>>
    /\ nextPageToken' = 0
    /\ apiCalls' = 0
    /\ attempt' = 0
    /\ httpAttempts' = 0
    /\ waits' = <<>>
    /\ pageLog' = <<>>
    /\ outcome' = "none"
    /\ requests' = <<>>
    /\ UNCHANGED <<inputVars, logVars, percentages, reply, other, grid, brandIndex, currentOperation, totalApiCalls, seenPlaceIds,
                   brandResults, results, connected, histVars, envVars>>

\* slip: an insert error ends the job as failed
InsertBatch_Aborts ==
    /\ pc = "insert"
    /\ \E insertError \in BOOLEAN :
          /\ results' = IF brandResults # <<>> /\ ~insertError
                        THEN results \o brandResults ELSE results
          /\ insertFailed' = IF brandResults # <<>> /\ insertError
                             THEN insertFailed \cup {brandIndex} ELSE insertFailed
          /\ IF brandResults # <<>> /\ insertError
             THEN /\ session' = Update(session, [status |-> "failed"])
                  /\ pc' = "done"
             ELSE /\ session' = Update(session, [completed_operations |-> currentOperation,
                                                 total_cost |-> CostOf(totalApiCalls)])
                  /\ pc' = "brand_loop"
    /\ brandIndex' = brandIndex + 1
    /\ UNCHANGED <<inputVars, logVars, percentages, reply, other, grid, gridIndex, currentOperation, totalApiCalls, seenPlaceIds,
                   brandResults, err, fetchVars, sseVars, fetchLog, costObserved, exhausted,
                   discovery, startTotal, envVars>>

\* "Insert brand results" and "Update session after each brand"
\* (server.js 272-295, 815-837)
InsertBatch ==
    /\ pc = "insert"
    /\ \E insertError \in BOOLEAN :
          /\ results' = IF brandResults # <<>> /\ ~insertError
                        THEN results \o brandResults ELSE results
          /\ insertFailed' = IF brandResults # <<>> /\ insertError
                             THEN insertFailed \cup {brandIndex} ELSE insertFailed
    /\ session' = Update(session, [completed_operations |-> currentOperation,
                                   total_cost |-> CostOf(totalApiCalls)])
    /\ brandIndex' = brandIndex + 1
    /\ pc' = "brand_loop"
    /\ UNCHANGED <<inputVars, logVars, percentages, reply, other, grid, gridIndex, currentOperation, totalApiCalls, seenPlaceIds,
                   brandResults, err, fetchVars, sseVars, fetchLog, costObserved, exhausted,
                   discovery, startTotal, envVars>>

\* slip: the final count adds the batch of the last brand to the stored rows
Finish_CountsLastBatch ==
    /\ pc = "finish"
    /\ session' = IF Persists(variant)
                  THEN Update(session, [status |-> "complete",
                                        total_results |-> Len(results) + Len(brandResults),
                                        completed_operations |-> TotalOperations(brands, grid),
                                        total_cost |-> CostOf(totalApiCalls)])
                  ELSE session
    /\ stream' = Send(stream, variant, "complete")
    /\ ended' = Streams(variant)
    /\ heartbeat' = FALSE
    /\ pc' = "done"
    /\ UNCHANGED <<inputVars, logVars, percentages, reply, other, grid, loopVars, err, fetchVars, results, connected, histVars, envVars>>

\* after the brand loop: final count, mark complete, send complete, end
\* (server.js 297-315, 839-870; part_000 278-291)
Finish ==
    /\ pc = "finish"
    /\ session' = IF Persists(variant)
                  THEN Update(session, [status |-> "complete",
                                        total_results |-> Len(results),
                                        completed_operations |-> TotalOperations(brands, grid),
                                        total_cost |-> CostOf(totalApiCalls)])
                  ELSE session
    /\ stream' = Send(stream, variant, "complete")
    /\ ended' = Streams(variant)
    /\ heartbeat' = FALSE
    /\ pc' = "done"
    /\ UNCHANGED <<inputVars, logVars, percentages, reply, other, grid, loopVars, err, fetchVars, results, connected, histVars, envVars>>

\* req.on('close', ...): the listener goes away, the heartbeat is cleared
Disconnect ==
    /\ Streams(variant)
    /\ pc \notin {"request", "done"}
    /\ connected
    /\ connected' = FALSE
    /\ heartbeat' = FALSE
    /\ UNCHANGED <<inputVars, logVars, percentages, reply, other, pc, grid, loopVars, err, fetchVars, dbVars, stream, ended, histVars, envVars>>

----------------------------------------------------------------------------
(* The polling endpoints, asked for the job's session id                   *)

NoReply == [kind |-> "none"]

\* session.total_operations > 0 ? Math.round((completed / total) * 100) : 0
Percentage(completed, total) ==
    IF total > 0 THEN (200 * completed + total) \div (2 * total) ELSE 0

\* GET /api/status/:sessionId (server.js 377-419): 404 when the select
\* finds no row
StatusReply(row) ==
    IF ~row.exists
    THEN [kind |-> "status", code |-> 404]
    ELSE [kind |-> "status", code |-> 200, status |-> row.status,
          current |-> row.completed_operations, total |-> row.total_operations,
          percentage |-> Percentage(row.completed_operations, row.total_operations),
          cost |-> row.total_cost, totalResults |-> row.total_results]

\* slip: only a complete session is handed out
ResultsReply_OnlyComplete(row, rows) ==
    IF ~row.exists \/ row.status # "complete"
    THEN [kind |-> "results", code |-> 404]
    ELSE [kind |-> "results", code |-> 200, session |-> row, results |-> rows,
          totalCost |-> row.total_cost]

\* GET /api/results/:sessionId (server.js 422-466, 891-929): 404 when the
\* select finds no row, else the row and the stored results in insert order
ResultsReply(row, rows) ==
    IF ~row.exists
    THEN [kind |-> "results", code |-> 404]
    ELSE [kind |-> "results", code |-> 200, session |-> row, results |-> rows,
          totalCost |-> row.total_cost]

\* a status query once the job has ended; only the polling variant has the
\* route
GetStatus ==
    /\ pc = "done"
    /\ variant = "polling"
    /\ reply' = StatusReply(session)
    /\ UNCHANGED <<inputVars, logVars, percentages, other, pc, grid, loopVars, err, fetchVars, dbVars, sseVars, histVars, envVars>>

\* a results query once the job has ended
GetResults ==
    /\ pc = "done"
    /\ Persists(variant)
    /\ reply' = ResultsReply(session, results)
    /\ UNCHANGED <<inputVars, logVars, percentages, other, pc, grid, loopVars, err, fetchVars, dbVars, sseVars, histVars, envVars>>

----------------------------------------------------------------------------
(* A second job. Every call of the handler (of runScrapingInBackground in  *)
(* the polling variant) declares its own grid, currentOperation,           *)
(* totalApiCalls and set of seen ids (server.js 165-168, 189, 682-686;     *)
(* part_000 161-166); the only module-level collection, scrapingSessions   *)
(* (part_000 26), is never read or written. The second job is given the    *)
(* same request body; one step of it is one pass of the inner loop.        *)

\* the locals of a handler that has not been called
IdleJob ==
    [status |-> "idle", brandIndex |-> 0, gridIndex |-> 0, totalApiCalls |-> 0, seen |-> {},
     discovery |-> <<>>, callLog |-> <<>>]

\* what a fetchPlaces call of the second job returns: {places, apiCalls}
OtherFetches ==
    {[places |-> <<>>, apiCalls |-> 1],
     [places |-> PageResults(0), apiCalls |-> 1],
     [places |-> PageResults(0) \o PageResults(1), apiCalls |-> 2],
     [places |-> <<>>, apiCalls |-> BurstPages]}

\* slip: the set of seen ids is one module-level set used by every job
OtherSeen_Shared == other.seen \cup seenPlaceIds

\* the set of seen ids the second job reads: the Set its own call created
OtherSeen == other.seen

\* the second request arrives
OtherStart ==
    /\ other.status = "idle"
    /\ other' = [other EXCEPT !.status = "running"]
    /\ UNCHANGED <<inputVars, logVars, percentages, pc, grid, loopVars, err, fetchVars, dbVars, sseVars, histVars, envVars,
                   reply>>

\* one pass of the inner loop of the second job: fetchPlaces returned f,
\* the call count is added, the cost is tested, the places are deduplicated
OtherOperation(f) ==
    /\ other.status = "running"
    /\ LET g == generateGrid(cityBounds, SpacingKm(variant), cityCenter)
           brand == brands[other.brandIndex + 1]
           seen0 == IF other.gridIndex = 0 THEN SeenAtBrand(variant, OtherSeen) ELSE OtherSeen
           total == other.totalApiCalls + f.apiCalls
           c == Collect(f.places, seen0, <<>>, brand)
           lastPoint == ~(other.gridIndex + 1 < Len(g))
           lastBrand == ~(other.brandIndex + 1 < Len(brands))
       IN  /\ other.brandIndex < Len(brands)
           /\ other.gridIndex < Len(g)
           /\ other' =
                IF CostExceeded(total)
                THEN [other EXCEPT !.status = "done", !.totalApiCalls = total,
                                   !.callLog = Append(@, f.apiCalls)]
                ELSE [other EXCEPT !.totalApiCalls = total,
                                   !.callLog = Append(@, f.apiCalls),
                                   !.seen = c.seen,
                                   !.discovery = @ \o Offered(f.places, seen0, brand,
                                                              Len(other.callLog) + 1),
                                   !.gridIndex = IF lastPoint THEN 0 ELSE @ + 1,
                                   !.brandIndex = IF lastPoint THEN @ + 1 ELSE @,
                                   !.status = IF lastPoint /\ lastBrand THEN "done" ELSE "running"]
    /\ UNCHANGED <<inputVars, logVars, percentages, pc, grid, loopVars, err, fetchVars, dbVars, sseVars, histVars, envVars,
                   reply>>

----------------------------------------------------------------------------
(* The job specification                                                   *)

Boxes ==
    {[min_lat |-> 2840000, max_lat |-> 2840000 + d, min_lng |-> 7700000, max_lng |-> 7700000] :
        d \in {-1, 0, LatSpan \div 2, LatSpan}}

\* brands are named by their position in the request
BrandLists == {[i \in 1..n |-> i] : n \in 0..MaxOps}

\* the handler's locals, the storage and the stream before the request is
\* handled, with a provider that has the given budgets
Fresh(faults, tokens) ==
    /\ pc = "request"
    /\ grid = <<>>
    /\ brandIndex = 0
    /\ gridIndex = 0
    /\ currentOperation = 0
    /\ totalApiCalls = 0
    /\ seenPlaceIds = {}
    /\ brandResults = <<>>
    /\ err = NoError
    /\ places = <<>>
    /\ nextPageToken = 0
    /\ apiCalls = 0
    /\ attempt = 0
    /\ httpAttempts = 0
    /\ waits = <<>>
    /\ pageLog = <<>>
    /\ outcome = "none"
    /\ requests = <<>>
    /\ session = NoSession
    /\ results = <<>>
    /\ stream = <<>>
    /\ ended = FALSE
    /\ connected = Streams(variant)
    /\ heartbeat = FALSE
    /\ fetchLog = <<>>
    /\ costObserved = FALSE
    /\ exhausted = {}
    /\ discovery = <<>>
    /\ startTotal = -1
    /\ insertFailed = {}
    /\ reply = NoReply
    /\ percentages = <<>>
    /\ other = IdleJob
    /\ faultsLeft = faults
    /\ tokensLeft = tokens

Init ==
    /\ variant \in Variants
    /\ brands \in BrandLists
    /\ cityBounds \in Boxes
    /\ cityCenter = CityCenterLat
    /\ Len(brands) * Len(generateGrid(cityBounds, SpacingKm(variant), cityCenter)) <= MaxOps
    /\ logged = FALSE
    /\ Fresh(MaxFaults, MaxTokens)

Next ==
    \/ ScrapePolling
    \/ StartBackground
    \/ ScrapeSseDb
    \/ ScrapeSseMem
    \/ NextBrand
    \/ NextPoint
    \/ EndOfGrid
    \/ \E r \in Responses : HttpAttempt(r)
    \/ \E r \in Responses : HttpAttemptNoRetry(r)
    \/ PageRun
    \/ AfterFetch
    \/ Catch
    \/ InsertBatch
    \/ Finish
    \/ Disconnect
    \/ GetStatus
    \/ GetResults

Spec == Init /\ [][Next]_vars

\* The steps of the job itself. The job is one async function; each of its
\* awaits settles: axios.get has timeout: 10000 (server.js 82), the backoff
\* and pacing sleeps are finite timers, the storage calls return. So the
\* job is never stopped for ever before a step it can take.
JobStep ==
    \/ ScrapePolling
    \/ StartBackground
    \/ ScrapeSseDb
    \/ ScrapeSseMem
    \/ NextBrand
    \/ NextPoint
    \/ EndOfGrid
    \/ \E r \in Responses : HttpAttempt(r)
    \/ \E r \in Responses : HttpAttemptNoRetry(r)
    \/ PageRun
    \/ AfterFetch
    \/ Catch
    \/ InsertBatch
    \/ Finish

SpecFair == Spec /\ WF_vars(JobStep)

\* Long jobs of the polling variant: one brand over a column of grid points
\* long enough for the progress update of every tenth operation, with a
\* provider that fails no attempt and issues no continuation token outside
\* a page run
LongBoxes ==
    {[min_lat |-> 2840000, max_lat |-> 2840000 + LongSpan, min_lng |-> 7700000, max_lng |-> 7700000]}

InitLong ==
    /\ variant = "polling"
    /\ brands = <<1>>
    /\ cityCenter = CityCenterLat
    /\ cityBounds \in LongBoxes
    /\ logged = FALSE
    /\ Fresh(0, 0)

NextLong ==
    \/ ScrapePolling
    \/ StartBackground
    \/ NextBrand
    \/ NextPoint
    \/ EndOfGrid
    \/ \E r \in Responses : HttpAttempt(r)
    \/ PageRun
    \/ AfterFetch
    \/ Catch
    \/ InsertBatch
    \/ Finish

SpecLong == InitLong /\ [][NextLong]_vars

\* Jobs of two brands over a column of two or three grid points, with a
\* provider that fails no attempt and issues no continuation token outside
\* a page run
InitOrder ==
    /\ variant \in Variants
    /\ brands = <<1, 2>>
    /\ cityCenter = CityCenterLat
    /\ cityBounds \in {b \in Boxes : b.max_lat = b.min_lat + LatSpan}
    /\ logged = FALSE
    /\ Fresh(0, 0)

NextOrder ==
    \/ ScrapePolling
    \/ StartBackground
    \/ ScrapeSseDb
    \/ ScrapeSseMem
    \/ NextBrand
    \/ NextPoint
    \/ EndOfGrid
    \/ \E r \in Responses : HttpAttempt(r)
    \/ \E r \in Responses : HttpAttemptNoRetry(r)
    \/ PageRun
    \/ AfterFetch
    \/ Catch
    \/ InsertBatch
    \/ Finish
    \/ Disconnect

SpecOrder == InitOrder /\ [][NextOrder]_vars

\* The start of a job over boxes that extend in both directions, up to the
\* box 28.4..28.8 x 77.0..77.4: the request handler up to the brand loop
StartSpans == {-1, 0, LatSpan, 4 * LatSpan}

StartBoxes ==
    {[min_lat |-> 2840000, max_lat |-> 2840000 + dLat,
      min_lng |-> 7700000, max_lng |-> 7700000 + dLng] : dLat \in StartSpans, dLng \in StartSpans}

InitStart ==
    /\ variant \in Variants
    /\ brands \in BrandLists
    /\ cityBounds \in StartBoxes
    /\ cityCenter \in CenterLats
    /\ logged = FALSE
    /\ Fresh(0, 0)

NextStart ==
    \/ ScrapePolling
    \/ StartBackground
    \/ ScrapeSseDb
    \/ ScrapeSseMem

SpecStart == InitStart /\ [][NextStart]_vars

\* Jobs of one or two brands over a single grid point, with a provider
\* that answers a fetch with a long run of empty pages: the accumulated
\* call count passes through the probed count and the counts around the
\* cost ceiling
RunLengths == {ProbeCalls - 1, BurstPages - 1, BurstPages}

\* n consecutive passes of the do-loop of fetchPlaces at the start of a
\* call, each answered OK with no results and a continuation token
PageRunOf(n) ==
    /\ pc = "fetch"
    /\ httpAttempts = 0
    /\ apiCalls' = apiCalls + n
    /\ httpAttempts' = httpAttempts + n
    /\ nextPageToken' = nextPageToken + 1
    /\ attempt' = 0
    /\ waits' = <<>>
    /\ pageLog' = <<>>
    /\ UNCHANGED <<inputVars, logVars, percentages, reply, other, pc, grid, loopVars, err, places, outcome, requests, dbVars, sseVars, histVars, envVars>>

InitCost ==
    /\ variant \in Variants
    /\ brands \in {<<1>>, <<1, 2>>}
    /\ cityCenter = CityCenterLat
    /\ cityBounds \in {b \in Boxes : b.max_lat = b.min_lat}
    /\ logged = FALSE
    /\ Fresh(0, 0)

NextCost ==
    \/ ScrapePolling
    \/ StartBackground
    \/ ScrapeSseDb
    \/ ScrapeSseMem
    \/ NextBrand
    \/ NextPoint
    \/ EndOfGrid
    \/ \E r \in Responses : HttpAttempt(r)
    \/ \E r \in Responses : HttpAttemptNoRetry(r)
    \/ \E n \in RunLengths : PageRunOf(n)
    \/ AfterFetch
    \/ Catch
    \/ InsertBatch
    \/ Finish
    \/ Disconnect

SpecCost == InitCost /\ [][NextCost]_vars

\* Two jobs of two brands over a single grid point, run interleaved, with
\* a provider that fails no attempt and issues no continuation token
\* outside a page run
InitPair ==
    /\ variant \in Variants
    /\ brands = <<1, 2>>
    /\ cityCenter = CityCenterLat
    /\ cityBounds \in {b \in Boxes : b.max_lat = b.min_lat}
    /\ logged = FALSE
    /\ Fresh(0, 0)

NextPair ==
    \/ ScrapePolling
    \/ StartBackground
    \/ ScrapeSseDb
    \/ ScrapeSseMem
    \/ NextBrand
    \/ NextPoint
    \/ EndOfGrid
    \/ \E r \in Responses : HttpAttempt(r)
    \/ \E r \in Responses : HttpAttemptNoRetry(r)
    \/ PageRun
    \/ AfterFetch
    \/ Catch
    \/ InsertBatch
    \/ Finish
    \/ OtherStart
    \/ \E f \in OtherFetches : OtherOperation(f)

SpecPair == InitPair /\ [][NextPair]_vars

\* Single fetchPlaces calls: jobs of one brand over one grid point, with a
\* provider that can fail every attempt of two pages and issue one more
\* continuation token than in the short jobs, and no page runs; every HTTP
\* attempt is logged
InitFetch ==
    /\ variant \in Variants
    /\ brands = <<1>>
    /\ cityCenter = CityCenterLat
    /\ cityBounds \in {b \in Boxes : b.max_lat = b.min_lat}
    /\ logged = TRUE
    /\ Fresh(2 * MaxFaults, MaxTokens + 1)

NextFetch ==
    \/ ScrapePolling
    \/ StartBackground
    \/ ScrapeSseDb
    \/ ScrapeSseMem
    \/ NextBrand
    \/ NextPoint
    \/ EndOfGrid
    \/ \E r \in Responses : HttpAttempt(r)
    \/ \E r \in Responses : HttpAttemptNoRetry(r)
    \/ AfterFetch
    \/ Catch
    \/ InsertBatch
    \/ Finish

SpecFetch == InitFetch /\ [][NextFetch]_vars

TypeOK ==
    /\ variant \in Variants
    /\ pc \in {"request", "background", "brand_loop", "grid_loop", "fetch", "fetched", "catch",
               "insert", "finish", "done"}
    /\ session.status \in {"none", "starting", "in_progress", "complete", "failed"}
    /\ attempt \in 0..(Retries + 1)
    /\ nextPageToken \in 0..(MaxTokens + 2)
    /\ faultsLeft \in 0..(2 * MaxFaults)
    /\ tokensLeft \in 0..(MaxTokens + 1)

----------------------------------------------------------------------------
(* Properties                                                              *)

Terminal == {"complete", "error"}
Middle == {"progress", "cost-update", "result"}
Last(q) == q[Len(q)]
AllPairs == {<<b, g>> : b \in 0..(Len(brands) - 1), g \in 0..(Len(grid) - 1)}
Kinds(E) == {e[1] : e \in E}

\* how a finished job shows that it failed / completed
EndedFailed ==
    /\ Persists(variant) => session.status = "failed"
    /\ Streams(variant) => (stream # <<>> /\ Last(stream) = "error")
EndedComplete ==
    /\ Persists(variant) => session.status = "complete"
    /\ Streams(variant) => (stream # <<>> /\ Last(stream) = "complete")

\* C1: when every one of the 3 attempts of a page request is answered
\* OVER_QUERY_LIMIT, fetchPlaces (retries = 3) ends by throwing a quota
\* error to its caller and does not return a normal result.
C1_RateLimitRaises ==
    (/\ variant \in {"polling", "sse_db"}
     /\ pc \in {"fetched", "catch"}
     /\ pageLog = <<"OVER_QUERY_LIMIT", "OVER_QUERY_LIMIT", "OVER_QUERY_LIMIT">>)
    => (outcome = "throw" /\ Includes(err, <<"quota">>))

\* C2: once a fetch has run out of retries on rate-limited responses, no
\* later grid point or brand is searched and the job ends failed.
C2_QuotaStopsJob ==
    \A e \in exhausted :
        e[1] = "rate" =>
            /\ currentOperation = e[2]
            /\ pc = "done" => EndedFailed

\* C3: in every variant that persists job status, a job that saw its
\* accumulated cost above the ceiling ends with status failed and a
\* cost-limit error reason.
C3_CostLimitMarksFailed ==
    (Persists(variant) /\ costObserved /\ pc = "done")
    => (/\ session.status = "failed"
        /\ Includes(session.error_message, <<"Cost", "limit">>))

\* C4: once the orchestrator has seen the accumulated cost above the
\* ceiling, the job makes no further fetchPlaces call and no further HTTP
\* attempt.
C4_NoFetchAfterCostLimit ==
    [][costObserved => (fetchLog' = fetchLog /\ pc' # "fetch")]_vars

C4_Witness ==
    /\ costObserved
    /\ pc = "done"
    /\ Len(fetchLog) < Len(brands) * Len(grid)

\* C5: the apiCalls a fetchPlaces call returns equals the number of HTTP
\* attempts it made, failed attempts included.
C5_ApiCallsCountAttempts ==
    pc = "fetched" => apiCalls = httpAttempts

\* C6: the persisted status only moves starting -> in_progress -> complete
\* or failed (the row is created as starting or in_progress), and a
\* complete or failed status never changes again.
C6_StatusMoves ==
    [][session.status' # session.status =>
        <<session.status, session.status'>> \in
            {<<"none", "starting">>, <<"none", "in_progress">>, <<"starting", "in_progress">>,
             <<"in_progress", "complete">>, <<"in_progress", "failed">>}]_vars

C6_Witness ==
    /\ variant = "polling"
    /\ session.status = "failed"
    /\ pc = "done"

\* C7: whenever the status is complete, every (brand, grid point) pair was
\* fetched exactly once and completed_operations = total_operations =
\* number of brands x number of grid points.
C7_CompleteMeansAllDone ==
    session.status = "complete" =>
        /\ Len(fetchLog) = Len(brands) * Len(grid)
        /\ \A p \in AllPairs : Cardinality({i \in 1..Len(fetchLog) : fetchLog[i] = p}) = 1
        /\ session.completed_operations = session.total_operations
        /\ session.total_operations = Len(brands) * Len(grid)

C7_Witness ==
    /\ session.status = "complete"
    /\ Len(fetchLog) >= 2

\* C8: a grid point whose fetch ran out of retries on transport errors
\* aborts nothing: unless a fatal condition (cost ceiling, quota) occurs,
\* the orchestrator goes on through every remaining grid point and brand
\* and the job ends complete.
C8_TransportFailureSkipped ==
    (/\ pc = "done"
     /\ "transport" \in Kinds(exhausted)
     /\ "rate" \notin Kinds(exhausted)
     /\ ~costObserved)
    => (/\ EndedComplete
        /\ Len(fetchLog) = Len(brands) * Len(grid)
        /\ \A p \in AllPairs : \E i \in 1..Len(fetchLog) : fetchLog[i] = p)

C8_Witness ==
    /\ pc = "done"
    /\ EndedComplete
    /\ \E e \in exhausted : e[1] = "transport" /\ e[2] < Len(fetchLog)

\* C9: when the live listener has disconnected during the run, the job
\* still ends with a terminal persisted status (complete or failed).
C9_DisconnectStillTerminal ==
    (Streams(variant) /\ Persists(variant) /\ ~connected /\ pc = "done")
    => session.status \in {"complete", "failed"}

\* C10 as stated: the stream begins with start, then holds only progress,
\* cost-update and result messages, and ends with exactly one terminal
\* message after which nothing is sent.
C10_StreamStartsWithStart ==
    /\ stream # <<>> => stream[1] = "start"
    /\ \A i \in 2..Len(stream) :
          stream[i] \in Middle \/ (i = Len(stream) /\ stream[i] \in Terminal)
    /\ ended => (stream # <<>> /\ Last(stream) \in Terminal)

\* C10 amended: the stream is either the single message error (the job
\* record could not be created) or begins with start; after the first
\* message it holds only progress, cost-update and result messages and
\* ends with exactly one terminal message after which nothing is sent.
C10_StreamShape ==
    /\ stream # <<>> => (stream[1] = "start" \/ stream = <<"error">>)
    /\ \A i \in 2..Len(stream) :
          stream[i] \in Middle \/ (i = Len(stream) /\ stream[i] \in Terminal)
    /\ ended => (stream # <<>> /\ Last(stream) \in Terminal)

C10_Witness ==
    /\ ended
    /\ Len(stream) >= 4
    /\ stream[1] = "start"
    /\ Last(stream) \in Terminal

\* the place ids of a sequence of records, and the entries of the discovery
\* history for which a record was pushed
Ids(q) == [i \in DOMAIN q |-> q[i].place_id]
PushedOf(q) == SelectSeq(q, LAMBDA d : d.pushed)
JobWide == variant \in {"sse_db", "sse_mem"}
FirstOccurrence(q, i) ==
    /\ q[i].place_id # NoId
    /\ \A j \in 1..(i - 1) : q[j].place_id # q[i].place_id
NoSharedId(q) == \A i, j \in DOMAIN q : i # j => q[i].place_id # q[j].place_id

\* C11: under job-wide deduplication each distinct place_id handed to the
\* deduplication loop over the whole job is accepted exactly once, at its
\* first occurrence in discovery order, so no two records of one job
\* (accepted, stored or streamed) share a place_id; deduplicatePlaces gives
\* the same selection.
C11_JobWideDedup ==
    JobWide =>
        /\ \A i \in DOMAIN discovery : discovery[i].pushed <=> FirstOccurrence(discovery, i)
        /\ NoSharedId(PushedOf(discovery))
        /\ NoSharedId(results)
        /\ Ids(PushedOf(discovery)) = deduplicatePlaces(Ids(discovery))
        /\ variant = "sse_mem" =>
              /\ Ids(brandResults) = Ids(PushedOf(discovery))
              /\ Len(SelectSeq(stream, LAMBDA m : m = "result")) = Len(brandResults)

C11_Witness ==
    /\ JobWide
    /\ pc = "done"
    /\ \E i, j \in DOMAIN discovery :
          /\ i < j
          /\ discovery[i].pushed
          /\ discovery[j].place_id = discovery[i].place_id
          /\ discovery[j].search_brand # discovery[i].search_brand

PerBrand == variant = "polling"
FirstInBrand(q, i) ==
    /\ q[i].place_id # NoId
    /\ \A j \in 1..(i - 1) :
          q[j].search_brand = q[i].search_brand => q[j].place_id # q[i].place_id
NoSharedIdInBrand(q) ==
    \A i, j \in DOMAIN q :
        (i # j /\ q[i].search_brand = q[j].search_brand) => q[i].place_id # q[j].place_id

\* C12: under per-brand deduplication no two records of one brand share a
\* place_id, and a place_id handed to the deduplication loop in the
\* searches of several brands is recorded once for each of those brands
\* (at its first occurrence within the brand).
C12_PerBrandDedup ==
    PerBrand =>
        /\ \A i \in DOMAIN discovery : discovery[i].pushed <=> FirstInBrand(discovery, i)
        /\ NoSharedIdInBrand(PushedOf(discovery))
        /\ NoSharedIdInBrand(brandResults)
        /\ NoSharedIdInBrand(results)
        /\ \A i \in DOMAIN discovery :
              discovery[i].place_id # NoId =>
                Cardinality({j \in DOMAIN discovery :
                                /\ discovery[j].pushed
                                /\ discovery[j].search_brand = discovery[i].search_brand
                                /\ discovery[j].place_id = discovery[i].place_id}) = 1

C12_Witness ==
    /\ PerBrand
    /\ pc = "done"
    /\ \E i, j \in DOMAIN results :
          /\ results[i].place_id = results[j].place_id
          /\ results[i].search_brand # results[j].search_brand
    /\ \E i, j \in DOMAIN discovery :
          /\ i < j
          /\ ~discovery[j].pushed
          /\ discovery[j].place_id = discovery[i].place_id
          /\ discovery[j].place_id # NoId

ResultMessages == SelectSeq(stream, LAMBDA m : m = "result")

\* C13: a place that comes without place_id never produces a result
\* record: none is pushed, stored or streamed for it, and the empty id is
\* not added to the set of seen ids.
C13_NoIdNoRecord ==
    /\ NoId \notin seenPlaceIds
    /\ \A i \in DOMAIN discovery : discovery[i].place_id = NoId => ~discovery[i].pushed
    /\ \A i \in DOMAIN brandResults : brandResults[i].place_id # NoId
    /\ \A i \in DOMAIN results : results[i].place_id # NoId
    /\ variant = "sse_mem" => Len(ResultMessages) = Len(PushedOf(discovery))

C13_Witness ==
    /\ pc = "done"
    /\ \E i \in DOMAIN discovery : discovery[i].place_id = NoId
    /\ Persists(variant) => results # <<>>
    /\ variant = "sse_mem" => ResultMessages # <<>>

\* the job record could not be created: rows are created by the request
\* only and never deleted
SetupFailed == Persists(variant) /\ pc # "request" /\ ~session.exists

\* C14: if the initial job record cannot be created no work starts: no
\* fetchPlaces call and no HTTP attempt is made for the job, the handler is
\* over, and no status beyond starting is ever stored for it.
C14_NoWorkWithoutRecord ==
    SetupFailed =>
        /\ pc = "done"
        /\ fetchLog = <<>>
        /\ httpAttempts = 0 /\ totalApiCalls = 0
        /\ results = <<>>
        /\ session.status \notin {"in_progress", "complete", "failed"}

C14_Witness ==
    /\ SetupFailed
    /\ variant = "sse_db"
    /\ Len(brands) * Len(grid) > 0
    /\ stream = <<"error">>

\* C15: when a job fails on a cost-ceiling breach, the stored
\* completed_operations counts only operations attempted: it does not
\* exceed the number of (brand, grid point) operations started up to the
\* failure and it is not the planned total.
C15_CompletedAtFailure ==
    (Persists(variant) /\ costObserved) =>
        /\ session.completed_operations <= Len(fetchLog)
        /\ session.completed_operations <= currentOperation
        /\ session.completed_operations # TotalOperations(brands, grid)

C15_Witness ==
    /\ costObserved
    /\ pc = "done"
    /\ session.status = "failed"
    /\ session.completed_operations = 10
    /\ Len(fetchLog) = 11
    /\ session.total_operations = 11

\* C16: the accumulated cost is the call count x 0.017 and the ceiling test
\* is strict: the cost is not seen above the ceiling of 20000 at 1000 calls
\* (cost 17.0) nor at any count up to 1,176,470, and it is at every count
\* from 1,176,471 on, which is exactly when calls x 17 > 20000 x 1000.
C16_CostCeilingStrict ==
    /\ costObserved <=> totalApiCalls >= 1176471
    /\ costObserved <=> totalApiCalls * 17 > 20000 * 1000
    /\ CostExceeded(totalApiCalls) <=> costObserved
    /\ totalApiCalls = 1000 => (CostOf(totalApiCalls) = 17 * 1000 /\ ~costObserved)
    /\ (session.exists /\ ((pc = "brand_loop" /\ brandIndex > 0) \/ session.status = "complete")) =>
            session.total_cost = totalApiCalls * 17

C16_Witness ==
    /\ costObserved
    /\ totalApiCalls = 1176471
    /\ Len(fetchLog) = 2

\* C17: the total operation count published at job start, the total of
\* the start message and total_operations of the job record once the job
\* is in progress, is number of brands x number of points of the
\* generated grid.
C17_TotalPublished ==
    LET planned == Len(brands) * Len(generateGrid(cityBounds, SpacingKm(variant), cityCenter))
    IN  /\ (stream # <<>> /\ stream[1] = "start") => startTotal = planned
        /\ startTotal # -1 => (startTotal = planned /\ startTotal = Len(brands) * Len(grid))
        /\ session.status \in {"in_progress", "complete", "failed"} =>
                (session.total_operations = planned
                 /\ session.total_operations = Len(brands) * Len(grid))

C17_Witness ==
    /\ variant = "sse_db"
    /\ Len(brands) = 2
    /\ Len(grid) = 20
    /\ stream = <<"start">>
    /\ startTotal = 40
    /\ session.total_operations = 40

\* C18: a failed batch insert of one brand's results does not abort the
\* job: the orchestrator moves on to the next brand, the job, unless a
\* fatal condition occurs, still ends complete with every (brand, grid
\* point) fetched, and no record of the failed batch is in storage.
C18_InsertFailureSkipped ==
    \A b \in insertFailed :
        /\ brandIndex > b
        /\ session.status # "failed" \/ costObserved
        /\ \A i \in DOMAIN results : results[i].search_brand # brands[b + 1]
        /\ \E i \in DOMAIN discovery :
              discovery[i].pushed /\ discovery[i].search_brand = brands[b + 1]
        /\ (pc = "done" /\ ~costObserved /\ "rate" \notin Kinds(exhausted)) =>
              (EndedComplete /\ Len(fetchLog) = Len(brands) * Len(grid))

C18_Witness ==
    /\ pc = "done"
    /\ EndedComplete
    /\ insertFailed = {0}
    /\ Len(brands) = 2
    /\ results # <<>>

\* a job with a record that ended on a fatal error
JobFailed ==
    /\ session.exists
    /\ pc = "done"
    /\ session.status = "failed" \/ (Streams(variant) /\ stream # <<>> /\ Last(stream) = "error")

RowMajor(log, g) ==
    \A i \in DOMAIN log : log[i] = <<(i - 1) \div Len(g), (i - 1) % Len(g)>>

\* C20: within one job the searches run one at a time: fetchPlaces is
\* called for the brands in input order and, for each brand, the grid
\* points in generator order; a call starts only when no other call is
\* running, and every HTTP attempt belongs to the one running call.
C20_OneFetchAtATime ==
    [][/\ RowMajor(fetchLog', grid')
       /\ fetchLog' # fetchLog =>
             /\ pc = "grid_loop" /\ pc' = "fetch"
             /\ fetchLog' = Append(fetchLog, <<brandIndex, gridIndex>>)
             /\ httpAttempts' = 0
       /\ httpAttempts' > httpAttempts =>
             (pc = "fetch" /\ fetchLog' = fetchLog /\ currentOperation = Len(fetchLog))]_vars

C20_Witness ==
    /\ pc = "done"
    /\ Len(brands) = 2
    /\ Len(grid) >= 2
    /\ Len(fetchLog) = 2 * Len(grid)
    /\ totalApiCalls >= Len(fetchLog)

\* whether the records accepted in the discovery history q are those the
\* deduplication of the variant accepts from q alone
AcceptedAlone(v, q) ==
    \A i \in DOMAIN q :
        q[i].pushed <=> (IF v = "polling" THEN FirstInBrand(q, i) ELSE FirstOccurrence(q, i))

RECURSIVE SumSeq(_)
SumSeq(q) == IF q = <<>> THEN 0 ELSE Head(q) + SumSeq(Tail(q))

\* the deduplication and cost locals of the first job
JobLocals == <<seenPlaceIds, totalApiCalls, brandResults>>

\* C21: two jobs run interleaved share no deduplication or cost state: the
\* records each job accepts are those its deduplication accepts from the
\* places of its own fetches alone, its call count (and so its cost) is the
\* sum of the calls of its own fetches, and no step of one job changes the
\* seen ids, the call count or the accepted records of the other.
C21_JobsIndependent ==
    /\ [](/\ AcceptedAlone(variant, discovery)
          /\ AcceptedAlone(variant, other.discovery)
          /\ other.totalApiCalls = SumSeq(other.callLog)
          /\ CostOf(other.totalApiCalls) = SumSeq(other.callLog) * UnitCostMilli)
    /\ [][/\ other' # other => JobLocals' = JobLocals
          /\ JobLocals' # JobLocals => other' = other
          /\ totalApiCalls' # totalApiCalls =>
                (pc = "fetched" /\ totalApiCalls' = totalApiCalls + apiCalls)]_vars

C21_Witness ==
    /\ pc = "fetch"
    /\ other.status = "running"
    /\ \E i \in DOMAIN discovery : discovery[i].pushed /\ discovery[i].place_id = "a"
    /\ \E i \in DOMAIN other.discovery :
          other.discovery[i].pushed /\ other.discovery[i].place_id = "a"
    /\ totalApiCalls # other.totalApiCalls
    /\ totalApiCalls > 0 /\ other.totalApiCalls > 0

\* the box of the request has min <= max on both axes, and the grid of the
\* job has been generated
ProperBox == cityBounds.min_lat <= cityBounds.max_lat /\ cityBounds.min_lng <= cityBounds.max_lng
GridMade == pc = "brand_loop"

\* C22: for every box with min <= max on both axes and every spacing used,
\* each generated grid point has min_lat <= lat <= max_lat and
\* min_lng <= lng <= max_lng.
C22_GridInBounds ==
    (GridMade /\ ProperBox) =>
        \A i \in DOMAIN grid :
            /\ cityBounds.min_lat <= grid[i].lat /\ grid[i].lat <= cityBounds.max_lat
            /\ cityBounds.min_lng <= grid[i].lng /\ grid[i].lng <= cityBounds.max_lng

C22_Witness ==
    /\ GridMade /\ ProperBox
    /\ Len(grid) >= 12
    /\ \E i \in DOMAIN grid : grid[i].lat > cityBounds.min_lat /\ grid[i].lng > cityBounds.min_lng

\* the number of steps of the given size that fit between lo and hi
StepsWithin(lo, hi, step) == (hi - lo) \div step

Started == pc # "request" /\ ~SetupFailed
JobOver == pc = "done"

\* C23: with every HTTP attempt returning or timing out and a provider that
\* stops issuing continuation tokens, every started job eventually comes to
\* its end, and it ends with a terminal status (complete or failed).
C23_ReachesTerminalStatus ==
    /\ Started ~> JobOver
    /\ []((Started /\ JobOver) => (EndedComplete \/ EndedFailed))

\* the attempts of the current page so far were all answered rate-limited
AllRateLimited == pageLog # <<>> /\ \A i \in DOMAIN pageLog : pageLog[i] = "OVER_QUERY_LIMIT"

\* C24: when a page request is rate-limited on every attempt (retries = 3),
\* exactly 3 HTTP attempts are made for the page and the waits after them
\* are 2 s, 4 s and 8 s: 2^k seconds after the k-th attempt, strictly
\* increasing.
C24_RateLimitBackoff ==
    (variant \in {"polling", "sse_db"} /\ AllRateLimited) =>
        /\ Len(pageLog) <= Retries
        /\ Len(waits) = Len(pageLog)
        /\ \A k \in DOMAIN waits : waits[k] = (2 ^ k) * 1000
        /\ \A k \in 1..(Len(waits) - 1) : waits[k] < waits[k + 1]
        /\ Len(pageLog) = Retries => (pc # "fetch" /\ waits = <<2000, 4000, 8000>>)

C24_Witness ==
    /\ AllRateLimited
    /\ Len(pageLog) = 3
    /\ waits = <<2000, 4000, 8000>>
    /\ httpAttempts = 4
    /\ pc = "fetched"

\* the results of the pages answered in the logged attempts, in order
RECURSIVE ResultsOf(_)
ResultsOf(q) ==
    IF q = <<>> THEN <<>>
    ELSE (IF Head(q).status \in {"OK", "ZERO_RESULTS"} THEN Head(q).results ELSE <<>>)
            \o ResultsOf(Tail(q))

\* the call is over and every attempt of its last page failed on transport
\* (three attempts with retry, the single attempt without)
TransportExhausted ==
    /\ pc \in {"fetched", "catch"}
    /\ pageLog # <<>>
    /\ \A i \in DOMAIN pageLog : pageLog[i] = "ERR"
    /\ variant = "sse_mem" \/ Len(pageLog) = Retries

\* C25: when a page request fails on transport errors for all its attempts,
\* fetchPlaces does not throw: it returns normally with the places of all
\* pages fetched before during that call.
C25_TransportFailureReturns ==
    (logged /\ TransportExhausted) =>
        /\ outcome = "return"
        /\ pc = "fetched"
        /\ places = ResultsOf(requests)

\* the logged attempts that got an answer from the provider
Answered(q) == Cardinality({i \in DOMAIN q : q[i].status # "ERR"})

\* C26: on a provider status other than ok, no-results or rate-limited,
\* fetchPlaces makes no retry and requests no further page: the call
\* returns the places accumulated from the earlier pages, and the attempt
\* is counted in apiCalls.
C26_OtherStatusEndsCall ==
    \A i \in DOMAIN requests :
        requests[i].status = "INVALID_REQUEST" =>
            /\ i = Len(requests)
            /\ pc = "fetched"
            /\ outcome = "return"
            /\ places = ResultsOf(SubSeq(requests, 1, i - 1))
            /\ apiCalls = Answered(requests)
            /\ apiCalls = Answered(SubSeq(requests, 1, i - 1)) + 1

C26_Witness ==
    /\ pc = "fetched"
    /\ Len(requests) >= 3
    /\ Last(requests).status = "INVALID_REQUEST"
    /\ Last(requests).pagetoken # 0
    /\ places # <<>>
    /\ \E i \in DOMAIN requests : requests[i].status = "ERR"

\* every logged attempt of the current call was answered ok or no-results
AllPagesOk == \A i \in DOMAIN requests : requests[i].status \in {"OK", "ZERO_RESULTS"}

\* C27: when every page is answered ok or no-results, each next page is
\* requested with the continuation token of the previous page, the call
\* stops at the first page without a token and returns the concatenation,
\* in page order, of the results of all pages, with apiCalls equal to the
\* number of pages.
C27_PagesConcatenated ==
    (logged /\ pc \in {"fetch", "fetched"} /\ requests # <<>> /\ AllPagesOk) =>
        /\ requests[1].pagetoken = 0
        /\ \A i \in 2..Len(requests) :
              requests[i - 1].token # 0 /\ requests[i].pagetoken = requests[i - 1].token
        /\ places = ResultsOf(requests)
        /\ apiCalls = Len(requests)
        /\ pc = "fetch" => (Last(requests).token # 0 /\ nextPageToken = Last(requests).token)
        /\ pc = "fetched" => (Last(requests).token = 0 /\ outcome = "return")

C27_Witness ==
    /\ pc = "fetched"
    /\ AllPagesOk
    /\ Len(requests) = 3
    /\ apiCalls = 3
    /\ places = PageResults(0) \o PageResults(1) \o PageResults(2)

\* the logged attempts made for the page requested with token t, and the
\* pages the current call has reached
AttemptsFor(t) == Cardinality({i \in DOMAIN requests : requests[i].pagetoken = t})
PagesReached == Cardinality({requests[i].pagetoken : i \in DOMAIN requests})

\* C29: in fetchPlaces with retry the attempt counter counts rate-limit and
\* transport failures alike and starts at 0 for each page; whatever the mix
\* of failures a page is attempted at most `retries` times, so a call that
\* reaches P pages makes at most P x retries HTTP attempts.
C29_AttemptsPerPage ==
    (logged /\ variant \in {"polling", "sse_db"} /\ pc \in {"fetch", "fetched"}) =>
        /\ httpAttempts = Len(requests)
        /\ \A i \in DOMAIN requests : AttemptsFor(requests[i].pagetoken) <= Retries
        /\ httpAttempts <= PagesReached * Retries
        /\ Len(pageLog) <= Retries
        /\ pc = "fetch" =>
              /\ attempt = Len(pageLog)
              /\ attempt < Retries
              /\ \A i \in DOMAIN pageLog : pageLog[i] \in {"OVER_QUERY_LIMIT", "ERR"}
              /\ (requests # <<>> /\ ~IsFault(Last(requests))) => attempt = 0

C29_Witness ==
    /\ variant \in {"polling", "sse_db"}
    /\ pc = "fetched"
    /\ PagesReached = 2
    /\ httpAttempts = 2 * Retries
    /\ \E i, j \in DOMAIN pageLog : pageLog[i] = "ERR" /\ pageLog[j] = "OVER_QUERY_LIMIT"
    /\ \E i, j \in 1..Retries : requests[i].status = "ERR" /\ requests[j].status = "OVER_QUERY_LIMIT"

\* the records accepted for the brands whose batch insert was reached and
\* did not fail, in discovery order
Persisted ==
    LET kept == SelectSeq(discovery,
                    LAMBDA d : /\ d.pushed
                               /\ d.search_brand <= brandIndex
                               /\ (d.search_brand - 1) \notin insertFailed)
    IN  [i \in DOMAIN kept |-> [search_brand |-> kept[i].search_brand, place_id |-> kept[i].place_id]]

\* C30: when a job aborts on a cost-ceiling breach, the places of the
\* breaching fetch are not recorded, the records accepted so far for the
\* brand in progress are never written to storage, and storage holds only
\* the batches of the brands completed before the breach.
C30_BreachKeepsCompletedBatches ==
    (Persists(variant) /\ costObserved) =>
        /\ \A i \in DOMAIN discovery : discovery[i].op < currentOperation
        /\ \A i \in DOMAIN results : results[i].search_brand # brands[brandIndex + 1]
        /\ \A i \in DOMAIN results : results[i].search_brand <= brandIndex
        /\ results = Persisted
        /\ Len(fetchLog) = currentOperation

C30_Witness ==
    /\ Persists(variant)
    /\ costObserved
    /\ pc = "done"
    /\ brandIndex = 1
    /\ brandResults # <<>>
    /\ results # <<>>
    /\ Len(results) < Len(PushedOf(discovery))

WholePercent(p) == p.kind = "number" /\ p.value \in 0..100

\* C32: the percentage of every progress message and of every status
\* response is an integer between 0 and 100, also when the brand list or
\* the generated grid is empty (total operations = 0).
C32_PercentageInRange ==
    /\ \A i \in DOMAIN percentages : WholePercent(percentages[i])
    /\ session.exists => StatusReply(session).percentage \in 0..100
    /\ (reply.kind = "status" /\ reply.code = 200) => reply.percentage \in 0..100

\* the grid point (0-based, generator order) and the brand (position in
\* the input) of the operation with number op
GridPointOf(op) == (op - 1) % Len(grid)
BrandOf(op) == ((op - 1) \div Len(grid)) + 1

\* the entries of the discovery history for the place p, and the records
\* with that place in a sequence of records
HitsOf(p) == {j \in DOMAIN discovery : discovery[j].place_id = p}
RecordsOf(q, p) == {j \in DOMAIN q : q[j].place_id = p}

\* C33: under job-wide deduplication a place returned by the searches of
\* several brands is recorded exactly once, for the first brand in input
\* order whose search returned it, at the first grid point in generator
\* order that returned it for that brand; storage and the stream hold no
\* second record of it.
C33_FirstBrandFirstPoint ==
    JobWide =>
        \A i \in DOMAIN discovery :
            discovery[i].place_id # NoId =>
                LET p == discovery[i].place_id
                    rec == {j \in HitsOf(p) : discovery[j].pushed}
                IN  /\ Cardinality(rec) = 1
                    /\ \A j \in rec, k \in HitsOf(p) :
                          /\ discovery[j].search_brand = BrandOf(discovery[j].op)
                          /\ discovery[j].search_brand <= discovery[k].search_brand
                          /\ discovery[j].search_brand = discovery[k].search_brand =>
                                GridPointOf(discovery[j].op) <= GridPointOf(discovery[k].op)
                          /\ \A r \in RecordsOf(results, p) :
                                results[r].search_brand = discovery[j].search_brand
                          /\ \A r \in RecordsOf(brandResults, p) :
                                brandResults[r].search_brand = discovery[j].search_brand
                    /\ Cardinality(RecordsOf(results, p)) <= 1
                    /\ Cardinality(RecordsOf(brandResults, p)) <= 1
                    /\ variant = "sse_mem" => Cardinality(RecordsOf(brandResults, p)) = 1

C33_Witness ==
    /\ JobWide
    /\ pc = "done"
    /\ Len(grid) = 3
    /\ \E j \in HitsOf("a") :
          /\ discovery[j].pushed
          /\ discovery[j].search_brand = 1
          /\ GridPointOf(discovery[j].op) = 1
          /\ \E k \in HitsOf("a") : discovery[k].search_brand = 1 /\ GridPointOf(discovery[k].op) = 2
          /\ \E k \in HitsOf("a") : discovery[k].search_brand = 2 /\ GridPointOf(discovery[k].op) = 0

====
